---- MODULE Spec2Model ----
(***************************************************************************)
(* A model of the decoder core of gust_tools: gust_enc.c (descramblers D1  *)
(* and D2, the bit-swap pass, the Glaze decompressor, main) and            *)
(* Pak_Decrypt.c (the PAK layout autodetect).                              *)
(*                                                                         *)
(* uint32_t values are pairs <<hi, lo>> of 16-bit halves, so that every    *)
(* operation is computed modulo 2^32 as the C code computes it.  Bytes are *)
(* 0..255.  A C buffer is a sequence of bytes; C index i is element i+1.   *)
(***************************************************************************)
EXTENDS Integers, Sequences, FiniteSets, TLC

-----------------------------------------------------------------------------
(* uint32_t / uint16_t / uint8_t arithmetic                                *)

U32(hi, lo) == <<hi, lo>>
Zero32 == <<0, 0>>
Small32(n) == <<n \div 65536, n % 65536>>

Pow2(b) == <<1, 2, 4, 8, 16, 32, 64, 128, 256>>[b + 1]

Bit(byte, b) == (byte \div Pow2(b)) % 2

\* a ^ b on uint8_t
Xor8(a, b) ==
    ((a + b) % 2)
    + 2 * ((a \div 2 + b \div 2) % 2)
    + 4 * ((a \div 4 + b \div 4) % 2)
    + 8 * ((a \div 8 + b \div 8) % 2)
    + 16 * ((a \div 16 + b \div 16) % 2)
    + 32 * ((a \div 32 + b \div 32) % 2)
    + 64 * ((a \div 64 + b \div 64) % 2)
    + 128 * ((a \div 128 + b \div 128) % 2)

\* a ^ b on uint16_t
Xor16(a, b) == 256 * Xor8(a \div 256, b \div 256) + Xor8(a % 256, b % 256)

\* a ^ b, ~a, a + b, a - b, a * b on uint32_t
Xor32(a, b) == <<Xor16(a[1], b[1]), Xor16(a[2], b[2])>>
Not32(a) == <<65535 - a[1], 65535 - a[2]>>
Add32(a, b) ==
    LET lo == a[2] + b[2]
    IN  <<(a[1] + b[1] + lo \div 65536) % 65536, lo % 65536>>
Sub32(a, b) ==
    LET lo == a[2] - b[2]
        borrow == IF lo < 0 THEN 1 ELSE 0
    IN  <<(a[1] - b[1] - borrow + 131072) % 65536, (lo + 65536) % 65536>>
\* the full 32-bit product of two 16-bit values, as <<hi, lo>>
Mul16(a, b) ==
    LET p0 == (a % 256) * b
        p1 == (a \div 256) * b
        lo == p0 + (p1 % 256) * 256
    IN  <<(p1 \div 256 + lo \div 65536) % 65536, lo % 65536>>
Mul32(a, b) ==
    LET p == Mul16(a[2], b[2])
    IN  <<(p[1] + Mul16(a[1], b[2])[2] + Mul16(a[2], b[1])[2]) % 65536, p[2]>>
Lt32(a, b) == a[1] < b[1] \/ (a[1] = b[1] /\ a[2] < b[2])
Le32(a, b) == a = b \/ Lt32(a, b)

\* getbe32(&buf[i])
getbe32(buf, i) ==
    <<buf[i + 1] * 256 + buf[i + 2], buf[i + 3] * 256 + buf[i + 4]>>
\* getbe16(&buf[i])
getbe16(buf, i) == buf[i + 1] * 256 + buf[i + 2]
\* the four bytes setbe32 would store for v
be32(v) == <<v[1] \div 256, v[1] % 256, v[2] \div 256, v[2] % 256>>

Min(a, b) == IF a < b THEN a ELSE b
Max(a, b) == IF a < b THEN b ELSE a

-----------------------------------------------------------------------------
(* The pseudo-random generator shared by the descramblers                  *)

SEED_CONSTANT == <<15258, 29641>>   \* 0x3b9a73c9
SEED_INCREMENT == 12041             \* 0x2f09

\* seed[1] = seed[0] * seed[1] + SEED_INCREMENT
NextSeed(seed0, seed1) == Add32(Mul32(seed0, seed1), <<0, SEED_INCREMENT>>)

-----------------------------------------------------------------------------
(* descramble_chunk: the bit-swap pass                                     *)

RemoveAt(s, j) == SubSeq(s, 1, j - 1) \o SubSeq(s, j + 1, Len(s))

\* One iteration i of the loop building the scrambling table: draw, pick
\* base_table[x], append it to scrambling_table, delete it from base_table
\* (the memmove).  st = [s |-> seed[1], base |-> ..., scr |-> ...].
ShuffleStep(st, i, table_size, seed0) ==
    LET s == NextSeed(seed0, st.s)
        x == (s[1] % 32768) % (table_size - i)
    IN  [s |-> s, base |-> RemoveAt(st.base, x + 1), scr |-> Append(st.scr, st.base[x + 1])]

RECURSIVE ShuffleRange(_, _, _, _, _)
ShuffleRange(st, lo, hi, table_size, seed0) ==
    IF hi <= lo THEN st
    ELSE IF hi = lo + 1 THEN ShuffleStep(st, lo, table_size, seed0)
    ELSE LET mid == (lo + hi) \div 2
             half == ShuffleRange(st, lo, mid, table_size, seed0)
         IN  \* (the test is never true: it has the first half computed first)
             IF half.s[1] < 0 THEN half
             ELSE ShuffleRange(half, mid, hi, table_size, seed0)

\* base_table[i] = (uint16_t)i, then the scrambled table and the seed after it
Scramble(table_size, seed0, seed1) ==
    ShuffleRange([s |-> seed1, base |-> [i \in 1..table_size |-> (i - 1) % 65536], scr |-> <<>>],
                 0, table_size, table_size, seed0)

\* byte position (uint8_t)(v >> 3) and bit position v & 7 of a table value
BytePos(v) == (v \div 8) % 256
BitPos(v) == v % 8

SetBit(byte, b, v) == byte - Bit(byte, b) * Pow2(b) + v * Pow2(b)

\* One iteration of the swap loop on memory m, the slice starting at C index at
SwapStep(m, at, scr, i) ==
    LET p0 == at + BytePos(scr[i + 1])
        b0 == BitPos(scr[i + 1])
        p1 == at + BytePos(scr[i + 2])
        b1 == BitPos(scr[i + 2])
        v0 == Bit(m[p0 + 1], b0)
        v1 == Bit(m[p1 + 1], b1)
        m1 == [m EXCEPT ![p0 + 1] = SetBit(@, b0, v1)]
    IN  [m1 EXCEPT ![p1 + 1] = SetBit(@, b1, v0)]

\* iterations i = 2*lo, 2*lo + 2, ..., 2*(hi-1) of the swap loop
RECURSIVE SwapRange(_, _, _, _, _)
SwapRange(m, at, scr, lo, hi) ==
    IF hi <= lo THEN m
    ELSE IF hi = lo + 1 THEN SwapStep(m, at, scr, 2 * lo)
    ELSE LET mid == (lo + hi) \div 2
             half == SwapRange(m, at, scr, lo, mid)
         IN  \* (the test is never true: it has the first half computed first)
             IF half[1] < 0 THEN half
             ELSE SwapRange(half, at, scr, mid, hi)

\* The last C index + 1 that iterations i = 2*lo, ..., 2*(hi-1) of the swap
\* loop touch on the slice at C index at: chunk[p0] and chunk[p1] of each
RECURSIVE TopRange(_, _, _, _)
TopRange(at, scr, lo, hi) ==
    IF hi <= lo THEN at
    ELSE IF hi = lo + 1
         THEN at + Max(BytePos(scr[2 * lo + 1]), BytePos(scr[2 * lo + 2])) + 1
    ELSE Max(TopRange(at, scr, lo, (lo + hi) \div 2), TopRange(at, scr, (lo + hi) \div 2, hi))

\* The swap loop of one slice, sh being the scrambled table and the seed
\* after it; top is the last C index + 1 touched so far
SliceSwap(st, at, sh, pairs) ==
    [s |-> sh.s, m |-> SwapRange(st.m, at, sh.scr, 0, pairs),
     top |-> Max(st.top, TopRange(at, sh.scr, 0, pairs))]

\* One pass of the while loop: the slice at C index at, with chunk_size bytes left
SliceStep(st, at, chunk_size, seed0, slice_size) ==
    SliceSwap(st, at, Scramble(slice_size * 8, seed0, st.s),
              (Min(slice_size * 8, chunk_size * 8) + 1) \div 2)

RECURSIVE SliceLoop(_, _, _, _, _, _)
SliceLoop(st, at, chunk_size, max_chunk, seed0, slice_size) ==
    IF at >= max_chunk THEN st
    ELSE LET done == SliceStep(st, at, chunk_size, seed0, slice_size)
         IN  \* (the test is never true: it has this slice computed first)
             IF done.s[1] < 0 THEN done
             ELSE SliceLoop(done, at + slice_size, chunk_size - slice_size, max_chunk,
                            seed0, slice_size)

\* The last C index + 1 the pass can touch: it swaps bits of whole slices, the
\* last one included when chunk_size is no multiple of slice_size.
ChunkReach(off, chunk_size, slice_size) ==
    IF chunk_size = 0 \/ slice_size = 0 THEN off
    ELSE off + ((chunk_size + slice_size - 1) \div slice_size - 1) * slice_size
             + Min(slice_size, 256)

\* What a pass that ended in the state out leaves: the size bytes of the
\* allocation, seed[1], and whether it touched bytes past max_chunk, the end
\* of the chunk, and past the allocation
ChunkResult(out, size, max_chunk) ==
    [ok |-> TRUE, mem |-> SubSeq(out.m, 1, size), s |-> out.s,
     past_chunk |-> out.top > max_chunk, past_mem |-> out.top > size]

\* descramble_chunk(&mem[off], chunk_size, seed, slice_size) on the allocation
\* mem.  Bytes past the end of mem are not the caller's: they read as the byte
\* fill (whatever the heap holds there), and what is written to them is lost.
\* Returns the memory, seed[1] after the call, the result and whether the
\* pass went past the chunk and past the allocation.
descramble_chunk(mem, off, chunk_size, seed0, seed1, slice_size, fill) ==
    LET reach == ChunkReach(off, chunk_size, slice_size)
        ext == mem \o [i \in 1..(Max(Len(mem), reach) - Len(mem)) |-> fill]
        out == SliceLoop([s |-> seed1, m |-> ext, top |-> off], off, chunk_size,
                         off + chunk_size, seed0, slice_size)
    IN  IF slice_size * 8 < 4
        THEN [ok |-> FALSE, mem |-> mem, s |-> seed1, past_chunk |-> FALSE, past_mem |-> FALSE]
        ELSE ChunkResult(out, Len(mem), off + chunk_size)

-----------------------------------------------------------------------------
(* The state.  Each variable is the state of one call under study; "idle"   *)
(* means the specification at hand does not use it.                        *)

VARIABLES
    sw,     \* a caller applying descramble_chunk to a buffer of its own
    ds,     \* a descrambler1 / descrambler2 call: buffer, seed_data, locals
    ug,     \* an unglaze call: source, cursors, output
    mn,     \* gust_enc's main on one ".e" file
    pk      \* Pak_Decrypt's main on one PAK file

vars == <<sw, ds, ug, mn, pk>>

Idle == [pc |-> "idle"]

\* What the heap may hold in the bytes past an allocation
HeapFill == {0, 255}

\* The values to try for the bytes past an allocation: one will do when the
\* call stays inside it
HeapAt(past) == IF past THEN HeapFill ELSE {0}

-----------------------------------------------------------------------------
(* descrambler1                                                            *)

\* x % seeds->fence >= seeds->fence / 2, for x < 0x8000 and fence > 0
FenceHit(x, fence) ==
    IF fence[1] > 0 THEN FALSE
    ELSE (x % fence[2]) >= (fence[2] \div 2)

\* One iteration of the 16-bit word loop, at C index i
WordStep(st, i, seed0, fence) ==
    LET s == NextSeed(seed0, st.s)
        x == s[1] % 32768
        w == getbe16(st.m, i)
        w1 == IF FenceHit(x, fence) THEN Xor16(w, x) ELSE w
        w2 == (w1 - x + 65536) % 65536
    IN  [s |-> s, m |-> [st.m EXCEPT ![i + 1] = w2 \div 256, ![i + 2] = w2 % 256]]

\* iterations i = 2*lo, ..., 2*(hi-1) of the word loop
RECURSIVE WordRange(_, _, _, _, _)
WordRange(st, lo, hi, seed0, fence) ==
    IF hi <= lo THEN st
    ELSE IF hi = lo + 1 THEN WordStep(st, 2 * lo, seed0, fence)
    ELSE LET mid == (lo + hi) \div 2
             half == WordRange(st, lo, mid, seed0, fence)
         IN  \* (the test is never true: it has the first half computed first)
             IF half.s[1] < 0 THEN half
             ELSE WordRange(half, mid, hi, seed0, fence)

\* descrambler1(buf, buf_size, seeds), buf the whole allocation; alloc tells
\* whether descramble_chunk's two calloc succeed.  seeds.main[1] is the C
\* main[0], and so on: sequences count from 1.
descrambler1(buf, buf_size, seeds, alloc, fill) ==
    LET chunk_size == Min(buf_size, 2048)
        dc == descramble_chunk(buf, buf_size - chunk_size, chunk_size,
                               SEED_CONSTANT, seeds.main[1], 256, fill)
        ext == dc.mem \o [i \in 1..(buf_size % 2) |-> fill]
        out == WordRange([s |-> seeds.main[2], m |-> ext], 0, (buf_size + 1) \div 2,
                         SEED_CONSTANT, seeds.fence)
    IN  IF ~alloc \/ ~dc.ok
        THEN [ok |-> FALSE, buf |-> buf, past |-> FALSE, past_chunk |-> FALSE]
        ELSE [ok |-> TRUE, buf |-> SubSeq(out.m, 1, buf_size),
              past |-> dc.past_mem \/ buf_size % 2 = 1, past_chunk |-> dc.past_chunk]

-----------------------------------------------------------------------------
(* descrambler2, one action per step                                       *)

\* for ( ; (buf_size > 0) && (buf[buf_size] != 0xff); buf_size--);
\* the value of buf_size after the loop: the last index in 1..buf_size that
\* holds 0xff, or 0
ScanMarker(buf, buf_size) ==
    LET found == {e \in 1..buf_size : buf[e + 1] = 255}
    IN  IF found = {} THEN 0 ELSE CHOOSE e \in found : \A f \in found : f <= e

\* (buf_size < sizeof(uint32_t)) || (buf[buf_size] != 0xff), after the scan
MarkerMissingNoFloor(buf, buf_size) == buf[buf_size + 1] # 255
MarkerMissing(buf, buf_size) == buf_size < 4 \/ buf[buf_size + 1] # 255

\* One iteration of the checksum loop, at C index i
ChecksumStep(buf, i, c) ==
    <<Xor32(c[1], Not32(getbe32(buf, i))), Sub32(c[2], getbe32(buf, i))>>

\* iterations i = 4*lo, ..., 4*(hi-1) of the checksum loop, from computed_checksum = c
RECURSIVE ChecksumRange(_, _, _, _)
ChecksumRange(buf, lo, hi, c) ==
    IF hi <= lo THEN c
    ELSE IF hi = lo + 1 THEN ChecksumStep(buf, 4 * lo, c)
    ELSE LET mid == (lo + hi) \div 2
             half == ChecksumRange(buf, lo, mid, c)
         IN  \* (the test is never true: it has the first half computed first)
             IF half[1][1] < 0 THEN half
             ELSE ChecksumRange(buf, mid, hi, half)

\* the checksum loop over buf[0..n), n a multiple of 4
ChecksumLoop(buf, n) == ChecksumRange(buf, 0, n \div 4, <<Zero32, Zero32>>)

\* (computed_checksum[0] != file_checksum[0]) || (computed_checksum[1] != file_checksum[1])
ChecksumMismatchBoth(computed, file) == computed[1] # file[1] /\ computed[2] # file[2]
ChecksumMismatch(computed, file) == computed[1] # file[1] \/ computed[2] # file[2]

\* The state of a call descrambler1/2(buf, buf_size, seeds) about to start at pc
DCall(pc, buf, seeds) ==
    [pc |-> pc, buf |-> buf, size |-> Len(buf), seeds |-> seeds,
     in |-> buf, seeds0 |-> seeds,
     seed0 |-> Zero32, seed1 |-> Zero32, file_checksum |-> <<Zero32, Zero32>>,
     end |-> 0, i |-> 0, seed_index |-> 0, fudge |-> 0, processed |-> 0,
     ret |-> "none", err |-> "none", swapped |-> FALSE,
     past |-> FALSE, past_chunk |-> FALSE]

\* descrambler1 can read or write past buf_size bytes
D1Past(buf_size) ==
    \/ buf_size % 2 = 1
    \/ ChunkReach(buf_size - Min(buf_size, 2048), Min(buf_size, 2048), 256) > buf_size

\* descrambler1, the whole call
D1Call ==
    /\ ds.pc = "d1"
    /\ \E alloc \in BOOLEAN, fill \in HeapAt(D1Past(ds.size)) :
         LET r == descrambler1(ds.buf, ds.size, ds.seeds, alloc, fill)
         IN  ds' = [ds EXCEPT !.pc = "d1_done", !.buf = r.buf, !.past = r.past,
                              !.past_chunk = r.past_chunk,
                              !.ret = IF r.ok THEN "true" ELSE "false",
                              !.err = IF r.ok THEN "none" ELSE "alloc"]
    /\ UNCHANGED <<sw, ug, mn, pk>>

\* descrambler2 up to the byte loop: the size check, the trailer, the marker scan
D2Begin ==
    /\ ds.pc = "d2"
    /\ IF ds.size % 4 # 0 \/ ds.size < 16
       THEN ds' = [ds EXCEPT !.pc = "d2_done", !.ret = "false", !.err = "size"]
       ELSE LET end == ScanMarker(ds.buf, ds.size - 13)
            IN  IF MarkerMissing(ds.buf, end)
                THEN ds' = [ds EXCEPT !.pc = "d2_done", !.ret = "false", !.err = "marker",
                                      !.end = end]
                ELSE ds' = [ds EXCEPT !.pc = "d2_xor", !.end = end,
                                      !.seed0 = Add32(getbe32(ds.buf, ds.size - 4), SEED_CONSTANT),
                                      !.seed1 = ds.seeds.table[1],
                                      !.file_checksum = <<getbe32(ds.buf, ds.size - 8),
                                                          getbe32(ds.buf, ds.size - 12)>>,
                                      !.i = 0, !.seed_index = 0, !.fudge = 0, !.processed = 0]
    /\ UNCHANGED <<sw, ug, mn, pk>>

\* ++processed_for_this_seed >= seeds->length[seed_index] + seed_switch_fudge
SeedSwitchStrict(processed, length, fudge) ==
    Lt32(Add32(length, Small32(fudge)), Small32(processed))
SeedSwitch(processed, length, fudge) ==
    Le32(Add32(length, Small32(fudge)), Small32(processed))

\* One iteration of the byte loop, on the call state d
XorByteStep(d) ==
    LET s == NextSeed(d.seed0, d.seed1)
        b == Xor8(d.buf[d.i + 1], s[1] % 256)
        idx == d.seed_index
        wrap == idx + 1 >= 3
        next == IF wrap THEN 0 ELSE idx + 1
        table == [d.seeds.table EXCEPT ![idx + 1] = s]
    IN  IF SeedSwitch(d.processed + 1, d.seeds.length[idx + 1], d.fudge)
        THEN [d EXCEPT !.buf[d.i + 1] = b, !.i = d.i + 1,
                       !.seeds.table = table, !.seed_index = next,
                       !.fudge = IF wrap THEN d.fudge + 1 ELSE d.fudge,
                       !.seed1 = table[next + 1], !.processed = 0]
        ELSE [d EXCEPT !.buf[d.i + 1] = b, !.i = d.i + 1,
                       !.seed1 = s, !.processed = d.processed + 1]

D2XorByte ==
    /\ ds.pc = "d2_xor"
    /\ ds.i < ds.end
    /\ ds' = XorByteStep(ds)
    /\ UNCHANGED <<sw, ug, mn, pk>>

\* After the byte loop: clear the marker, check the checksums, swap bits
D2Finish ==
    /\ ds.pc = "d2_xor"
    /\ ds.i >= ds.end
    /\ \E alloc \in BOOLEAN,
          fill \in HeapAt(ChunkReach(0, Min(ds.end - (ds.end % 4), 2048), 128) > ds.size) :
         LET buf == [ds.buf EXCEPT ![ds.end + 1] = 0]
             n == ds.end - (ds.end % 4)
             computed == ChecksumLoop(buf, n)
             dc == descramble_chunk(buf, 0, Min(n, 2048), ds.seed0, ds.seeds.main[3],
                                    128, fill)
         IN  IF ChecksumMismatch(computed, ds.file_checksum)
             THEN ds' = [ds EXCEPT !.pc = "d2_done", !.buf = buf, !.end = n,
                                   !.ret = "false", !.err = "checksum"]
             ELSE IF ~alloc
             THEN \* descramble_chunk returns false, which descrambler2 ignores
                  ds' = [ds EXCEPT !.pc = "d2_done", !.buf = buf, !.end = n,
                                   !.seed1 = ds.seeds.main[3], !.ret = "true"]
             ELSE ds' = [ds EXCEPT !.pc = "d2_done", !.buf = dc.mem, !.end = n,
                                   !.seed1 = dc.s, !.ret = "true", !.swapped = TRUE,
                                   !.past = dc.past_mem, !.past_chunk = dc.past_chunk]
    /\ UNCHANGED <<sw, ug, mn, pk>>

-----------------------------------------------------------------------------
(* A caller of descramble_chunk running the pass twice                     *)

\* The largest of the small slice sizes tried
MaxSlice == 3

\* A caller's buffer mem of which the first chunk_size bytes are passed as
\* the chunk, and the seed {seed0, seed1} it copies afresh for every run
SCall(mem, chunk_size, slice_size, seed0, seed1) ==
    [pc |-> "ready", mem |-> mem, orig |-> mem, chunk_size |-> chunk_size,
     slice_size |-> slice_size, seed0 |-> seed0, seed1 |-> seed1, runs |-> 0,
     ok |-> TRUE, past_chunk |-> FALSE, past_mem |-> FALSE]

\* uint32_t seed[2] = { seed0, seed1 }; descramble_chunk(mem, chunk_size, seed, slice_size);
SwapPass ==
    /\ sw.pc = "ready"
    /\ \E fill \in HeapAt(ChunkReach(0, sw.chunk_size, sw.slice_size) > Len(sw.mem)) :
         LET r == descramble_chunk(sw.mem, 0, sw.chunk_size, sw.seed0, sw.seed1,
                                   sw.slice_size, fill)
         IN  sw' = [sw EXCEPT !.mem = r.mem, !.runs = @ + 1, !.ok = r.ok,
                              !.pc = IF sw.runs + 1 >= 2 THEN "done" ELSE "ready",
                              !.past_chunk = @ \/ r.past_chunk,
                              !.past_mem = @ \/ r.past_mem]
    /\ UNCHANGED <<ds, ug, mn, pk>>

\* Buffers of n bytes
Ramp(n) == [i \in 1..n |-> ((i - 1) * 7 + 3) % 256]
Stripe(n) == [i \in 1..n |-> IF i % 3 = 1 THEN 165 ELSE IF i % 3 = 2 THEN 15 ELSE 0]
OneBit(n) == [i \in 1..n |-> IF i = 1 THEN 1 ELSE 0]

\* <<slice_size, chunk_size, buffer size>>: the slices of descrambler2 and
\* descrambler1 on whole chunks, small slices, slices of more than 0x100
\* bytes, and chunks ending inside a slice
SwapShapes ==
    {<<128, 512, 512>>, <<256, 512, 512>>, <<128, 256, 256>>, <<257, 257, 257>>,
     <<512, 512, 512>>, <<128, 144, 256>>, <<4, 6, 6>>, <<0, 4, 4>>}
    \cup {<<s, s * k, s * k>> : s \in 1..MaxSlice, k \in 1..2}

SwapSeeds == {<<SEED_CONSTANT, U32(4660, 22136)>>, <<U32(1, 3), U32(0, 7)>>}

InitSwap ==
    /\ ds = Idle /\ ug = Idle /\ mn = Idle /\ pk = Idle
    /\ \E shape \in SwapShapes, seed \in SwapSeeds :
         \E mem \in {Ramp(shape[3]), Stripe(shape[3]), OneBit(shape[3])} :
            sw = SCall(mem, shape[2], shape[1], seed[1], seed[2])

NextSwap == SwapPass

SpecSwap == InitSwap /\ [][NextSwap]_vars

\* C7: the pass is self-inverse: after two runs, each started from the same
\* seed, every bit of the buffer equals its original value.
C7_SelfInverse == sw.pc = "done" => sw.mem = sw.orig

-----------------------------------------------------------------------------
(* Glaze: getbits and build_code_table                                     *)

\* A uint32_t used as an offset from a pointer: offsets of 65536 and more are
\* all past the end of every buffer of the model, and are kept apart only as Far.
Far == 1000000
Pos(v) == IF v[1] > 0 THEN Far ELSE v[2]

\* The byte at C index pos of the allocation src; past its end, whatever the
\* heap holds there (fill)
SrcAt(src, pos, fill) == IF pos < Len(src) THEN src[pos + 1] ELSE fill

\* The bit reader's context cx = [src, base, size, fill]: ctx.buffer is
\* &src[base], ctx.size is size.  The reader has consumed bp bits: ctx.pos is
\* the number of bytes loaded, and getbits_mask is 0 when bp is a multiple of 8.
\* One bit, or -1 for EOF.
GetBit(cx, bp) ==
    IF bp % 8 = 0 /\ bp \div 8 >= cx.size THEN -1
    ELSE Bit(SrcAt(cx.src, cx.base + (bp \div 8), cx.fill), 7 - (bp % 8))

\* getbits(&ctx, n) continued with n bits to go and x read so far: the value
\* (or -1 for (uint32_t)EOF) and the bits consumed
RECURSIVE getbits(_, _, _, _)
getbits(cx, bp, n, x) ==
    IF n = 0 THEN [x |-> x, bp |-> bp]
    ELSE IF GetBit(cx, bp) = -1 THEN [x |-> -1, bp |-> bp]
    ELSE getbits(cx, bp + 1, n - 1, 2 * x + GetBit(cx, bp))

\* while ((++code_len < 8) && ((c = getbits(&ctx, 1)) == 0));
RECURSIVE ZeroRun(_, _, _)
ZeroRun(cx, bp, code_len) ==
    IF code_len + 1 >= 8 THEN [c |-> 0, code_len |-> code_len + 1, bp |-> bp]
    ELSE LET c == getbits(cx, bp, 1, 0)
         IN  IF c.x = 0 THEN ZeroRun(cx, c.bp, code_len + 1)
             ELSE [c |-> c.x, code_len |-> code_len + 1, bp |-> c.bp]

\* The value build_code_table stores after a first bit 0, given the zero run
\* z: (uint8_t)((c << code_len) | getbits(&ctx, code_len)), or 0
CodeValue(cx, z) ==
    LET v == getbits(cx, z.bp, z.code_len, 0)
    IN  IF z.code_len >= 8 THEN [x |-> 0, bp |-> z.bp]
        ELSE IF v.x = -1 THEN [x |-> 255, bp |-> v.bp]
        ELSE [x |-> (Pow2(z.code_len) + v.x) % 256, bp |-> v.bp]

\* The for loop of build_code_table from index i on: c = getbits(&ctx, 1) is
\* read before i < *code_table_length is tested.  table holds -1 where
\* nothing was stored (malloc'ed memory left as it was).
RECURSIVE DecodeFrom(_, _, _, _, _)
DecodeFrom(cx, n, i, bp, table) ==
    LET c == getbits(cx, bp, 1, 0)
        z == ZeroRun(cx, c.bp, 0)
        v == CodeValue(cx, z)
    IN  IF i >= n \/ c.x = -1 THEN [table |-> table, bp |-> c.bp]
        ELSE IF c.x = 1 THEN DecodeFrom(cx, n, i + 1, c.bp, [table EXCEPT ![i + 1] = 1])
        ELSE IF z.c = -1 THEN [table |-> table, bp |-> z.bp]
        ELSE DecodeFrom(cx, n, i + 1, v.bp, [table EXCEPT ![i + 1] = v.x])

\* build_code_table(&src[at], bitstream_length, &code_len), with code_len
\* already read: the table and the number of bits the reader consumed
build_code_table(src, at, bitstream_length, code_len, fill) ==
    DecodeFrom([src |-> src, base |-> at + 4, size |-> Pos(Sub32(bitstream_length, U32(0, 4))),
                fill |-> fill],
               code_len, 0, 0, [i \in 1..code_len |-> -1])

-----------------------------------------------------------------------------
(* Glaze: unglaze                                                          *)

\* The two orders a build may give the unsequenced *dst++ = dst[-d]: the
\* read indexes from dst before the increment, or from dst after it.
CopyOrders == {"read_first", "inc_first"}

\* The state of one unglaze(src, src_length, dst, dst_length) call.  dst is
\* out, the bytes written from dst[0] on (Len(out) is dst - dst0, and may pass
\* dec_length); the dict and len cursors are kept as their region's start in
\* src (dict_base, len_base) and the bytes consumed from it (dict_off,
\* len_off); code is the index code - code_table.  op and op_at are the last
\* opcode dispatched and its index; past_src records a read of src at an index
\* >= src_length.
GCall(src, dst_length, order) ==
    [pc |-> "parse", src |-> src, src_length |-> Len(src), dst_length |-> dst_length,
     order |-> order, dec_length |-> Zero32, code_table |-> <<>>, code_len |-> 0,
     code |-> 0, dict_base |-> 0, dict_off |-> 0, dict_len |-> Zero32,
     len_base |-> 0, len_off |-> 0, len_len |-> Zero32, out |-> <<>>,
     op |-> -1, op_at |-> -1, past_src |-> FALSE,
     ret |-> "none", err |-> "none"]

\* return v after the message err
GFail(g, v, err) == [g EXCEPT !.pc = "done", !.ret = v, !.err = err]

\* Lines 271-320: the length checks and build_code_table
Prologue(g, alloc, fill) ==
    LET src == g.src
        dec_length == getbe32(src, 0)
        bitstream_length == getbe32(src, 4)
        chk1 == Add32(bitstream_length, U32(0, 4))
        code_len == getbe32(src, 8)[2]
        bct == build_code_table(src, 8, bitstream_length, code_len, fill)
        dict_at == 8 + Pos(bitstream_length)
        dict_len == U32(256 * SrcAt(src, dict_at, fill) + SrcAt(src, dict_at + 1, fill),
                        256 * SrcAt(src, dict_at + 2, fill) + SrcAt(src, dict_at + 3, fill))
        chk2 == Add32(chk1, Add32(dict_len, U32(0, 4)))
        len_at == dict_at + 4 + Pos(dict_len)
        len_len == U32(256 * SrcAt(src, len_at, fill) + SrcAt(src, len_at + 1, fill),
                       256 * SrcAt(src, len_at + 2, fill) + SrcAt(src, len_at + 3, fill))
        chk3 == Add32(chk2, Add32(len_len, U32(0, 4)))
        g1 == [g EXCEPT !.dec_length = dec_length]
        g2 == [g1 EXCEPT !.code_table = bct.table, !.code_len = code_len,
                         !.past_src = (12 + ((bct.bp + 7) \div 8) > g.src_length)
                                      \/ (dict_at + 4 > g.src_length)]
        g3 == [g2 EXCEPT !.dict_base = dict_at + 4, !.dict_len = dict_len,
                         !.past_src = @ \/ (len_at + 4 > g.src_length)]
    IN  IF dec_length # g.dst_length THEN GFail(g1, dec_length, "mismatch")
        ELSE IF Le32(bitstream_length, U32(0, 4)) THEN GFail(g1, Zero32, "too_small")
        ELSE IF ~Lt32(chk1, Small32(g.src_length)) THEN GFail(g1, Zero32, "bitstream_large")
        ELSE IF ~alloc THEN GFail(g1, Zero32, "alloc")
        ELSE IF ~Lt32(chk2, Small32(g.src_length)) THEN GFail(g2, Zero32, "dict_large")
        ELSE IF ~Lt32(chk3, Small32(g.src_length)) THEN GFail(g3, Zero32, "len_large")
        ELSE [g3 EXCEPT !.pc = "run", !.len_base = len_at + 4, !.len_len = len_len]

\* *code++ at index j: a stored opcode, or what the heap holds where nothing
\* was stored or past the end of the table
CodeAt(g, j, fill) ==
    IF j < g.code_len /\ g.code_table[j + 1] # -1 THEN g.code_table[j + 1] ELSE fill

\* dict[k] and len[k] for the k-th byte of the region
DictAt(g, k, fill) == SrcAt(g.src, g.dict_base + k, fill)
LenAt(g, k, fill) == SrcAt(g.src, g.len_base + k, fill)

\* dst[-d] as the build reads it; outside the bytes written so far it is
\* memory nothing has stored to
BackAt(out, d, order, fill) ==
    LET at == IF order = "read_first" THEN Len(out) - d ELSE Len(out) + 1 - d
    IN  IF at >= 0 /\ at < Len(out) THEN out[at + 1] ELSE fill

\* for (i = n; i > 0; i--) *dst++ = dst[-d];
RECURSIVE CopyBack(_, _, _, _, _)
CopyBack(out, d, n, order, fill) ==
    IF n <= 0 THEN out
    ELSE IF n = 1 THEN Append(out, BackAt(out, d, order, fill))
    ELSE LET half == CopyBack(out, d, n \div 2, order, fill)
         IN  \* (the test is never true: it has the first half computed first)
             IF Len(half) < 0 THEN half
             ELSE CopyBack(half, d, n - (n \div 2), order, fill)

\* for (i = n; i > 0; i--) *dst++ = *dict++;
CopyDict(g, n, fill) == g.out \o [i \in 1..n |-> DictAt(g, g.dict_off + i - 1, fill)]

\* The cursors after a handler took nc code bytes, nd dict bytes, nl len
\* bytes and left out as the output
Taken(g, nc, nd, nl, out) ==
    [g EXCEPT !.code = @ + 1 + nc, !.dict_off = @ + nd, !.len_off = @ + nl, !.out = out,
              !.past_src = @ \/ (nd > 0 /\ g.dict_base + g.dict_off + nd > g.src_length)
                             \/ (nl > 0 /\ g.len_base + g.len_off + nl > g.src_length)]

\* The switch of lines 328-372 on opcode op; the operands follow at code + 1
Dispatch(g, op, fill) ==
    LET c1 == CodeAt(g, g.code + 1, fill)
        c2 == CodeAt(g, g.code + 2, fill)
        d0 == DictAt(g, g.dict_off, fill)
        l0 == LenAt(g, g.len_off, fill)
    IN  CASE op = 1 -> Taken(g, 0, 1, 0, Append(g.out, d0))
          [] op = 2 -> Taken(g, 1, 0, 0, CopyBack(g.out, c1, 1, g.order, fill))
          [] op = 3 -> Taken(g, 2, 0, 0, CopyBack(g.out, c1 + c2, c2 + 1, g.order, fill))
          [] op = 4 -> Taken(g, 1, 1, 0, CopyBack(g.out, d0 + c1, c1 + 1, g.order, fill))
          [] op = 5 -> Taken(g, 2, 1, 0, CopyBack(g.out, 256 * c1 + d0 + c2, c2 + 1, g.order, fill))
          [] op = 6 -> Taken(g, 1, c1 + 8, 0, CopyDict(g, c1 + 8, fill))
          [] op = 7 -> Taken(g, 0, l0 + 14, 1, CopyDict(g, l0 + 14, fill))
          [] OTHER -> Taken(g, 0, 0, 0, g.out)

\* One iteration of the while loop of line 321
Iteration(g, fill) ==
    LET op == CodeAt(g, g.code, fill)
    IN  IF Lt32(g.dict_len, Small32(g.dict_off)) \/ Lt32(g.len_len, Small32(g.len_off))
           \/ g.code > g.code_len
        THEN GFail(g, Zero32, "overflow")
        ELSE [Dispatch(g, op, fill) EXCEPT !.op = op, !.op_at = g.code]

\* unglaze up to the first test of the while loop
GParse ==
    /\ ug.pc = "parse"
    /\ \E alloc \in BOOLEAN, fill \in HeapFill : ug' = Prologue(ug, alloc, fill)
    /\ UNCHANGED <<sw, ds, mn, pk>>

\* dst < dst_max: one more iteration
GStep ==
    /\ ug.pc = "run"
    /\ Lt32(Small32(Len(ug.out)), ug.dec_length)
    /\ \E fill \in HeapFill : ug' = Iteration(ug, fill)
    /\ UNCHANGED <<sw, ds, mn, pk>>

\* dst >= dst_max: free(code_table); return dec_length
GReturn ==
    /\ ug.pc = "run"
    /\ ~Lt32(Small32(Len(ug.out)), ug.dec_length)
    /\ ug' = [ug EXCEPT !.pc = "done", !.ret = ug.dec_length]
    /\ UNCHANGED <<sw, ds, mn, pk>>

-----------------------------------------------------------------------------
(* The unglaze calls under study                                           *)

\* How far below the decoded length a stream may declare its out_len, and
\* how many opcodes past the encoded ones it may declare in code_len
MaxShort == 2
MaxCut == 1

\* The bits that make build_code_table store opcode v: 1 for 0x01, eight
\* zeros for 0x00, else k zeros, a one and the k low bits of v
CodeBits(v) ==
    IF v = 1 THEN <<1>>
    ELSE IF v = 0 THEN <<0, 0, 0, 0, 0, 0, 0, 0>>
    ELSE LET k == CHOOSE k \in 1..7 : Pow2(k) <= v /\ v < 2 * Pow2(k)
         IN  [i \in 1..(2 * k + 1) |->
                 IF i <= k THEN 0 ELSE IF i = k + 1 THEN 1 ELSE Bit(v, 2 * k + 1 - i)]

RECURSIVE AllBits(_)
AllBits(codes) == IF codes = <<>> THEN <<>> ELSE CodeBits(Head(codes)) \o AllBits(Tail(codes))

\* The bits packed into bytes, first bit in bit 7, the last byte padded with 0
PackBits(bits) ==
    [j \in 1..((Len(bits) + 7) \div 8) |->
        LET b(i) == IF 8 * (j - 1) + i <= Len(bits) THEN bits[8 * (j - 1) + i] ELSE 0
        IN  128 * b(1) + 64 * b(2) + 32 * b(3) + 16 * b(4) + 8 * b(5) + 4 * b(6) + 2 * b(7) + b(8)]

\* Opcode streams with their dictionary and length table, and the number n
\* of bytes they decode to
Programs ==
    { [codes |-> <<1, 1, 1>>, dict |-> <<65, 66, 67>>, lentab |-> <<>>, n |-> 3],
      [codes |-> <<1, 2, 1, 2, 1>>, dict |-> <<65>>, lentab |-> <<>>, n |-> 3],
      [codes |-> <<1, 1, 3, 0, 1>>, dict |-> <<65, 66>>, lentab |-> <<>>, n |-> 4],
      [codes |-> <<1, 1, 4, 1>>, dict |-> <<65, 66, 0>>, lentab |-> <<>>, n |-> 4],
      [codes |-> <<1, 1, 5, 0, 1>>, dict |-> <<65, 66, 0>>, lentab |-> <<>>, n |-> 4],
      [codes |-> <<6, 0>>, dict |-> <<65, 66, 67, 68, 69, 70, 71, 72>>, lentab |-> <<>>, n |-> 8],
      [codes |-> <<7>>, dict |-> <<65, 66, 67, 68, 69, 70, 71, 72, 73, 74, 75, 76, 77, 78>>,
       lentab |-> <<0>>, n |-> 14],
      [codes |-> <<1, 1, 6, 2>>, dict |-> <<65, 66, 67, 67, 68, 69, 70, 71, 72, 73, 74, 75>>,
       lentab |-> <<>>, n |-> 12],
      [codes |-> <<0, 1, 9, 1>>, dict |-> <<65, 66>>, lentab |-> <<>>, n |-> 2],
      [codes |-> <<1, 3>>, dict |-> <<65>>, lentab |-> <<>>, n |-> 2],
      [codes |-> <<1, 1, 1>>, dict |-> <<65>>, lentab |-> <<>>, n |-> 3],
      [codes |-> <<7, 1>>, dict |-> <<65>>, lentab |-> <<>>, n |-> 15] }

\* What a stream may declare in its length fields
Tweaks == {"none", "bitstream_4", "bitstream_wrap", "dict_wrap", "len_wrap", "dict_long",
           "len_long", "mismatch"}

\* The stream of program p declaring out_len, with cut more opcodes declared
\* than encoded and its length fields as tweak says
Stream(p, out_len, cut, tweak) ==
    LET bits == PackBits(AllBits(p.codes))
        bl == IF tweak = "bitstream_4" THEN U32(0, 4)
              ELSE IF tweak = "bitstream_wrap" THEN U32(65535, 65532)
              ELSE Small32(4 + Len(bits))
        dl == IF tweak = "dict_wrap" THEN Sub32(Zero32, Add32(bl, U32(0, 8)))
              ELSE IF tweak = "dict_long" THEN Small32(Len(p.dict) + 100)
              ELSE Small32(Len(p.dict))
        ll == IF tweak = "len_wrap" THEN Sub32(Zero32, Add32(Add32(bl, dl), U32(0, 12)))
              ELSE IF tweak = "len_long" THEN Small32(Len(p.lentab) + 100)
              ELSE Small32(Len(p.lentab))
    IN  be32(Small32(out_len)) \o be32(bl) \o be32(Small32(Len(p.codes) + cut)) \o bits
        \o be32(dl) \o p.dict \o be32(ll) \o p.lentab

\* The first src_length bytes of stream, zeros after its end
Fit(stream, src_length) ==
    [i \in 1..src_length |-> IF i <= Len(stream) THEN stream[i] ELSE 0]

\* The smallest multiple of 4, at least 16, that the length checks accept for
\* a stream of n bytes, and one that leaves room for a trailer after it
Tight(n) == Max(16, 4 * (n \div 4))
Roomy(n) == 4 * ((n + 3) \div 4) + 16

InputFor(p, out_len, cut, tweak, roomy) ==
    LET stream == Stream(p, out_len, cut, tweak)
    IN  [src |-> Fit(stream, IF roomy THEN Roomy(Len(stream)) ELSE Tight(Len(stream))),
         dst_length |-> Small32(IF tweak = "mismatch" THEN out_len + 1 ELSE out_len)]

InputsOf(p) ==
    { InputFor(p, Max(0, p.n - short), cut, tweak, roomy) :
        short \in 0..MaxShort, cut \in 0..MaxCut, tweak \in Tweaks, roomy \in BOOLEAN }

GlazeInputs == UNION { InputsOf(p) : p \in Programs }

InitGlaze ==
    /\ sw = Idle /\ ds = Idle /\ mn = Idle /\ pk = Idle
    /\ \E in \in GlazeInputs, order \in CopyOrders : ug = GCall(in.src, in.dst_length, order)

NextGlaze == GParse \/ GStep \/ GReturn

SpecGlaze == InitGlaze /\ [][NextGlaze]_vars

\* unglaze has returned dec_length after its loop ended
GSuccess == ug.pc = "done" /\ ug.err = "none"

\* C1: output overrun is fatal: whenever unglaze reports success, exactly
\* out_len bytes have been written to the output and none beyond it.
C1_OverrunIsFatal == GSuccess => Small32(Len(ug.out)) = ug.dec_length

\* The opcode just dispatched was stored in the table by build_code_table
OpDecoded ==
    /\ ug.pc \in {"run", "done"}
    /\ ug.op_at >= 0 /\ ug.op_at < ug.code_len
    /\ ug.code_table[ug.op_at + 1] = ug.op

\* C2: an opcode outside 0x01..0x07 is a fatal decompression error: once
\* such an opcode has been dispatched, unglaze has returned failure and has
\* not gone on to the next opcode.
C2_UnknownOpcodeFatal ==
    (OpDecoded /\ ug.op \notin 1..7) => (ug.pc = "done" /\ ug.ret = Zero32 /\ ug.err # "none")

\* C3: every read through the code, dict and len cursors stays inside its
\* region: the bytes a cursor has consumed never number more than its region
\* holds (code_len opcodes, dict_len dictionary bytes, len_len length bytes).
C3_CursorsInRegion ==
    ug.pc \in {"run", "done"} =>
        /\ ug.code <= ug.code_len
        /\ Le32(Small32(ug.dict_off), ug.dict_len)
        /\ Le32(Small32(ug.len_off), ug.len_len)

\* C4: inconsistent sub-stream lengths are rejected: no byte at an offset >=
\* src_length is ever read, and the opcode loop is entered only when the
\* three regions with their length prefixes end inside the src_length bytes.
C4_LengthsChecked ==
    /\ ~ug.past_src
    /\ (ug.pc = "run" \/ ug.op_at >= 0) =>
           /\ Pos(ug.dict_len) < Far /\ Pos(ug.len_len) < Far
           /\ ug.len_base + Pos(ug.len_len) <= ug.src_length

-----------------------------------------------------------------------------
(* build_code_table on bitstreams that end early                           *)

\* The most opcodes a table of this study declares
MaxCodes == 3

\* One build_code_table call on the bitstream bits (the bytes after the
\* 4-byte table length n), followed opcode by opcode: i is the loop index, bp
\* the bits consumed, table the malloc'ed table (-1: nothing stored), eof the
\* place the reader first returned EOF and eof_at the index being decoded then
BCall(bits, n) ==
    [pc |-> "table", cx |-> [src |-> bits, base |-> 0, size |-> Len(bits), fill |-> 0],
     n |-> n, i |-> 0, bp |-> 0, table |-> [j \in 1..n |-> -1], eof |-> "none", eof_at |-> 0]

\* EOF met while decoding opcode b.i: recorded the first time only
AtEof(b, where) ==
    IF b.eof = "none" THEN [b EXCEPT !.eof = where, !.eof_at = b.i] ELSE b

\* One iteration of the for loop, the c = getbits(&ctx, 1) that precedes its
\* test included
BctOpcode ==
    /\ ug.pc = "table"
    /\ LET c == getbits(ug.cx, ug.bp, 1, 0)
           z == ZeroRun(ug.cx, c.bp, 0)
           v == CodeValue(ug.cx, z)
           value_eof == z.code_len < 8 /\ getbits(ug.cx, z.bp, z.code_len, 0).x = -1
       IN  ug' = IF ug.i >= ug.n THEN [ug EXCEPT !.pc = "built"]
                 ELSE IF c.x = -1 THEN [AtEof(ug, "first") EXCEPT !.pc = "built"]
                 ELSE IF c.x = 1
                      THEN [ug EXCEPT !.table[ug.i + 1] = 1, !.i = @ + 1, !.bp = c.bp]
                 ELSE IF z.c = -1 THEN [AtEof(ug, "zeros") EXCEPT !.pc = "built"]
                 ELSE [(IF value_eof THEN AtEof(ug, "value") ELSE ug)
                          EXCEPT !.table[ug.i + 1] = v.x, !.i = @ + 1, !.bp = v.bp]
    /\ UNCHANGED <<sw, ds, mn, pk>>

\* Bitstreams of 0, 1 and 2 bytes
Bitstreams ==
    {<<>>} \union { <<b>> : b \in {0, 1, 2, 3, 8, 16, 32, 64, 65, 127, 128, 129, 170, 192, 224, 255} }
           \union { <<0, b>> : b \in {0, 64, 128, 255} }

InitTable ==
    /\ sw = Idle /\ ds = Idle /\ mn = Idle /\ pk = Idle
    /\ \E bits \in Bitstreams, n \in 1..MaxCodes : ug = BCall(bits, n)

NextTable == BctOpcode

SpecTable == InitTable /\ [][NextTable]_vars

\* The followed call builds the table build_code_table builds
TableAgrees ==
    ug.pc = "built" =>
        ug.table = DecodeFrom(ug.cx, ug.n, 0, 0, [j \in 1..ug.n |-> -1]).table

\* C12: when the bit reader returns EOF while opcode i is decoded (on the
\* first bit, in the zero run, or in the value bits), no value is stored at
\* index i or at any later index.
C12_EofTruncates ==
    ug.pc \in {"table", "built"} /\ ug.eof # "none" =>
        \A j \in ug.eof_at..(ug.n - 1) : ug.table[j + 1] = -1

-----------------------------------------------------------------------------
(* Pak_Decrypt: the entry table and the layout autodetect                   *)

\* The most entries a PAK under study holds
MaxEntries == 3

\* A little-endian uint32_t at C index at of buf, as the packed structs of
\* Pak_Decrypt.c are read on the little-endian hosts it is built for
getle32(buf, at) == U32(256 * buf[at + 4] + buf[at + 3], 256 * buf[at + 2] + buf[at + 1])
le32(v) == <<v[2] % 256, v[2] \div 256, v[1] % 256, v[1] \div 256>>

\* sizeof(pak_header), sizeof(pak_entry32), sizeof(pak_entry64), and
\* offsetof(data_offset) in both
HeaderSize == 16
Entry32Size == 160
Entry64Size == 168
DataOffsetAt == 152

\* A uint64_t sum as <<multiples of 2^32, low 32 bits>>
Sum64Add(sum, v) ==
    LET low == Add32(sum[2], v)
    IN  <<sum[1] + (IF Lt32(low, sum[2]) THEN 1 ELSE 0), low>>
Sum64Lt(a, b) == a[1] < b[1] \/ (a[1] = b[1] /\ Lt32(a[2], b[2]))

\* (val > last) ? val - last : last - val
AbsDelta(val, last) == IF Lt32(last, val) THEN Sub32(val, last) ELSE Sub32(last, val)

\* main of Pak_Decrypt.c on the file: layout is the stride the file was
\* written with, which the program does not know
PCall(file, layout) ==
    [pc |-> "open", file |-> file, layout |-> layout, nb_entries |-> 0, entries64 |-> <<>>,
     i |-> 0, sum |-> <<<<0, Zero32>>, <<0, Zero32>>>>, last |-> <<Zero32, Zero32>>,
     is_pak32 |-> FALSE, ret |-> "none"]

\* fread of the header, calloc and fread of nb_entries * sizeof(pak_entry64)
\* bytes: what the file does not hold stays 0.  The signature and entry
\* count warnings print and change nothing.
PkRead ==
    /\ pk.pc = "open"
    /\ \E alloc \in BOOLEAN :
         LET nb == getle32(pk.file, 4)[2]
             have == Len(pk.file) - HeaderSize
         IN  pk' = IF Len(pk.file) < HeaderSize \/ ~alloc
                   THEN [pk EXCEPT !.pc = "done", !.ret = "-1"]
                   ELSE [pk EXCEPT !.pc = "scan", !.nb_entries = nb,
                                   !.entries64 = [k \in 1..(nb * Entry64Size) |->
                                       IF k <= have THEN pk.file[HeaderSize + k] ELSE 0]]
    /\ UNCHANGED <<sw, ds, ug, mn>>

\* One iteration of the detection loop: val[0] is the data_offset of entry i
\* of the table taken as pak_entry32, val[1] the high half of the
\* data_offset of entry i taken as pak_entry64
PkScan ==
    /\ pk.pc = "scan"
    /\ pk.i < Min(pk.nb_entries, 64)
    /\ LET val0 == getle32(pk.entries64, pk.i * Entry32Size + DataOffsetAt)
           val1 == getle32(pk.entries64, pk.i * Entry64Size + DataOffsetAt + 4)
       IN  pk' = [pk EXCEPT !.i = @ + 1,
                            !.sum = <<Sum64Add(pk.sum[1], AbsDelta(val0, pk.last[1])),
                                      Sum64Add(pk.sum[2], AbsDelta(val1, pk.last[2]))>>,
                            !.last = <<val0, val1>>]
    /\ UNCHANGED <<sw, ds, ug, mn>>

\* is_pak32 = (sum[0] < sum[1]);
PkDetect ==
    /\ pk.pc = "scan"
    /\ pk.i >= Min(pk.nb_entries, 64)
    /\ pk' = [pk EXCEPT !.pc = "detected", !.is_pak32 = Sum64Lt(pk.sum[1], pk.sum[2])]
    /\ UNCHANGED <<sw, ds, ug, mn>>

-----------------------------------------------------------------------------
(* The PAK files under study                                               *)

\* The canonical header for n entries
PakHeader(n) == le32(U32(2, 0)) \o le32(Small32(n)) \o le32(U32(0, 16)) \o le32(U32(0, 13))

PakKeys == { [j \in 1..20 |-> 0], [j \in 1..20 |-> (j * 13 + 7) % 256] }

\* The 128-byte filename field of entry e: "\" and a letter, NUL padded,
\* XORed with the key
PakName(e, key) ==
    [j \in 1..128 |-> Xor8(IF j = 1 THEN 92 ELSE IF j = 2 THEN 97 + e ELSE 0,
                           key[((j - 1) % 20) + 1])]

\* Entry e of a table of the given stride: its payload is length bytes at
\* data_offset
PakEntry(stride, e, key, length, data_offset, dummy) ==
    PakName(e, key) \o le32(Small32(length)) \o key
    \o (IF stride = Entry32Size
        THEN le32(Small32(data_offset)) \o le32(dummy)
        ELSE le32(Small32(data_offset)) \o le32(Zero32) \o le32(dummy) \o le32(Zero32))

\* Payload lengths: 0x200 for the first entry, 0x10 for the others, stored
\* back to back from data_offset 0
PakLength(e) == IF e = 0 THEN 512 ELSE 16
PakOffset(e) == IF e = 0 THEN 0 ELSE 512 + 16 * (e - 1)

RECURSIVE PakTable(_, _, _, _, _)
PakTable(stride, n, e, key, dummy) ==
    IF e >= n THEN <<>>
    ELSE PakEntry(stride, e, key, PakLength(e), PakOffset(e), dummy)
         \o PakTable(stride, n, e + 1, key, dummy)

\* A well-formed PAK of n entries: header, table, and the payloads, every
\* payload byte being fill
PakFile(stride, n, key, dummy, fill) ==
    PakHeader(n) \o PakTable(stride, n, 0, key, dummy)
    \o [j \in 1..(PakOffset(n - 1) + PakLength(n - 1)) |-> fill]

PakFiles ==
    { [file |-> PakFile(stride, n, key, dummy, fill), layout |-> stride] :
        stride \in {Entry32Size, Entry64Size}, n \in 2..MaxEntries, key \in PakKeys,
        dummy \in {Zero32, U32(0, 1)}, fill \in {0, 65} }

InitPak ==
    /\ sw = Idle /\ ds = Idle /\ ug = Idle /\ mn = Idle
    /\ \E f \in PakFiles : pk = PCall(f.file, f.layout)

NextPak == PkRead \/ PkScan \/ PkDetect

SpecPak == InitPak /\ [][NextPak]_vars

\* C6: for every well-formed PAK with at least 2 entries the delta sum of
\* the layout it was written with is strictly less than the other layout's
\* sum, and the reader selects that layout.
C6_AutodetectCorrect ==
    pk.pc = "detected" =>
        IF pk.layout = Entry32Size
        THEN Sum64Lt(pk.sum[1], pk.sum[2]) /\ pk.is_pak32
        ELSE Sum64Lt(pk.sum[2], pk.sum[1]) /\ ~pk.is_pak32

-----------------------------------------------------------------------------
(* decode and the key test of main                                         *)

\* uint8_t key[20] of pak_entry32 and pak_entry64, the modulus of decode
KeyLen == 20

\* a[i] += k[i % 20]: a byte operation that is not its own inverse
decodeAdd(a, k, length) ==
    [j \in 1..Len(a) |-> IF j <= length THEN (a[j] + k[((j - 1) % KeyLen) + 1]) % 256 ELSE a[j]]

\* for (uint32_t i = 0; i < length; i++) a[i] ^= k[i % 20];
decode(a, k, length) ==
    [j \in 1..Len(a) |-> IF j <= length THEN Xor8(a[j], k[((j - 1) % KeyLen) + 1]) ELSE a[j]]

\* for (j = 0; (j < 20) && (key[j] == 0); j++);  the j the loop ends with
RECURSIVE KeyScan(_, _)
KeyScan(key, j) == IF j < KeyLen /\ key[j + 1] = 0 THEN KeyScan(key, j + 1) ELSE j

\* A buffer x of length bytes under the key: a is the buffer as it stands,
\* runs the number of decode calls made on it, skip_decode the flag of main
KCall(x, key) ==
    [pc |-> "keyed", x |-> x, a |-> x, key |-> key, length |-> Len(x), runs |-> 0,
     skip_decode |-> FALSE]

\* decode(buf, key, length), called on the buffer as it stands
PkDecode ==
    /\ pk.pc = "keyed"
    /\ pk.runs < 2
    /\ pk' = [pk EXCEPT !.a = decode(pk.a, pk.key, pk.length), !.runs = @ + 1]
    /\ UNCHANGED <<sw, ds, ug, mn>>

\* What main does with the buffer of an entry: skip_decode = (j >= 20), and
\* if (!skip_decode) decode(buf, key, length)
PkEntry ==
    /\ pk.pc = "keyed"
    /\ pk.runs = 0
    /\ LET skip_decode == KeyScan(pk.key, 0) >= KeyLen
       IN  pk' = [pk EXCEPT !.pc = "written", !.skip_decode = skip_decode,
                            !.a = IF ~skip_decode THEN decode(pk.a, pk.key, pk.length) ELSE pk.a]
    /\ UNCHANGED <<sw, ds, ug, mn>>

\* Keys: all zero, the key of the PAK files, and keys whose only non-zero
\* byte is the first or the last
DecodeKeys ==
    PakKeys \union { [j \in 1..KeyLen |-> IF j = at THEN 128 ELSE 0] : at \in {1, KeyLen} }

\* Byte strings of lengths around the key length, the 128 bytes of a
\* filename field among them
DecodeLengths == {0, 1, 19, 20, 21, 41, 128}

DecodeBuffers ==
    { [j \in 1..n |-> (j * m + c) % 256] : n \in DecodeLengths, m \in {0, 37}, c \in {0, 255} }

InitDecode ==
    /\ sw = Idle /\ ds = Idle /\ ug = Idle /\ mn = Idle
    /\ \E x \in DecodeBuffers, key \in DecodeKeys : pk = KCall(x, key)

NextDecode == PkDecode \/ PkEntry

SpecDecode == InitDecode /\ [][NextDecode]_vars

ZeroKey(key) == \A j \in 1..KeyLen : key[j] = 0

\* C11: decoding twice with the same key gives back the bytes, for every
\* length; with the all-zero key one decode changes nothing, and main,
\* which skips the decode for that key and no other, leaves the bytes that
\* decode would have left.
C11_DecodeInvolution ==
    /\ pk.pc = "keyed" /\ pk.runs = 2 => pk.a = pk.x
    /\ pk.pc = "keyed" /\ pk.runs = 1 /\ ZeroKey(pk.key) => pk.a = pk.x
    /\ pk.pc = "written" => /\ pk.skip_decode <=> ZeroKey(pk.key)
                            /\ pk.a = decode(pk.x, pk.key, pk.length)

C11_Witness ==
    /\ pk.pc = "keyed" /\ pk.runs = 2 /\ ~ZeroKey(pk.key)
    /\ pk.length % KeyLen # 0 /\ pk.length > KeyLen
    /\ decode(pk.x, pk.key, pk.length) # pk.x

-----------------------------------------------------------------------------
(* The descrambler calls under study                                       *)

\* How far the families of inputs go
MaxWords == 6       \* raw descrambler2 buffers of up to 4 * MaxWords bytes
MaxGap == 4         \* bytes between the marker and the trailer

U(n) == Small32(n)

SeedSets ==
    { [main |-> <<U32(4660, 22136), U32(43981, 291), U32(1, 57005)>>,
       table |-> <<U32(17, 8738), U32(13107, 17476), U32(21845, 26214)>>,
       length |-> len, fence |-> U(4096)] :
      len \in { <<U(1), U(2), U(1)>>, <<U(3), U(1), U(2)>>, <<U(200), U(1), U(1)>> } }

\* k iterations of the byte loop
RECURSIVE XorSteps(_, _)
XorSteps(d, k) ==
    IF k <= 0 THEN d
    ELSE IF k = 1 THEN XorByteStep(d)
    ELSE LET half == XorSteps(d, k \div 2)
         IN  IF half.i < 0 THEN half ELSE XorSteps(half, k - k \div 2)

\* A buffer descrambler2 accepts: what a scrambler stores for the body (a
\* multiple of 4 bytes, taken as already bit-swapped), followed by 3 bytes of
\* padding, the 0xff marker, gap bytes of 0, checksum1, checksum0 and the word
\* final_seed.
EncodeD2(body, gap, final_seed, seeds) ==
    LET n == Len(body)
        plain == body \o <<0, 0, 0>>
        sums == ChecksumLoop(body, n)
        d == [DCall("d2_xor", plain, seeds) EXCEPT
                 !.end = n + 3, !.seed0 = Add32(final_seed, SEED_CONSTANT),
                 !.seed1 = seeds.table[1]]
    IN  XorSteps(d, n + 3).buf \o <<255>> \o [i \in 1..gap |-> 0]
            \o be32(sums[2]) \o be32(sums[1]) \o be32(final_seed)

Bodies == { <<1, 2, 3, 4>>, <<65, 66, 67, 68, 255, 0, 128, 9>> }
FinalSeeds == { U(0), U32(258, 772) }

\* buf with the byte at C index p replaced by v (p = -1: left as it is)
Corrupt(buf, p, v) == IF p < 0 \/ p >= Len(buf) THEN buf ELSE [buf EXCEPT ![p + 1] = v]

\* Encoded buffers, intact or with one byte overwritten: the marker, a byte
\* of checksum1 or a byte of checksum0
HitAt(body, gap, hit) ==
    CASE hit = "none" -> -1
      [] hit = "marker" -> Len(body) + 3
      [] hit = "checksum1" -> Len(body) + 3 + gap + 1
      [] hit = "checksum0" -> Len(body) + 3 + gap + 5

EncodedCalls ==
    { DCall("d2", Corrupt(EncodeD2(body, gap, fs, seeds), HitAt(body, gap, hit), 85), seeds) :
        body \in Bodies, gap \in {0, MaxGap}, fs \in FinalSeeds, seeds \in SeedSets,
        hit \in {"none", "marker", "checksum1", "checksum0"} }

\* Raw buffers: zeros with at most one 0xff byte
RawInputs ==
    { [i \in 1..size |-> IF i = p THEN 255 ELSE 0] :
        size \in {4 * k : k \in 3..MaxWords} \cup {18}, p \in 0..(4 * MaxWords) }

\* A body of one whole slice, for which the last bit-swap pass stays inside
SliceBody == [i \in 1..128 |-> ((i - 1) * 7 + 3) % 256]

InitD ==
    /\ \/ ds \in EncodedCalls
       \/ \E buf \in RawInputs, seeds \in SeedSets :
            ds = DCall("d2", buf, seeds)
       \/ \E seeds \in SeedSets :
            ds = DCall("d2", EncodeD2(SliceBody, 0, U32(258, 772), seeds), seeds)
       \/ \E buf \in { [i \in 1..size |-> (i * 11) % 256] : size \in {17, 20, 256} },
             seeds \in SeedSets :
            ds = DCall("d1", buf \o <<>>, seeds)
    /\ sw = Idle /\ ug = Idle /\ mn = Idle /\ pk = Idle

NextD == D1Call \/ D2Begin \/ D2XorByte \/ D2Finish

SpecD == InitD /\ [][NextD]_vars

-----------------------------------------------------------------------------
(* Claims about descrambler2 and descrambler1                              *)

ValidSize(buf) == Len(buf) % 4 = 0 /\ Len(buf) >= 16

\* C8, as stated: a descrambler2 input of valid size whose last 13 bytes hold
\* no 0xff fails with the marker error, its buffer unmodified.
C8_Last13DecideMarker ==
    (/\ ds.pc = "d2_done"
     /\ ValidSize(ds.in)
     /\ \A i \in (Len(ds.in) - 13)..(Len(ds.in) - 1) : ds.in[i + 1] # 255)
    => (ds.err = "marker" /\ ds.buf = ds.in)

\* C8, amended: a descrambler2 input of valid size that holds no 0xff at any
\* index from 4 to size-13 fails with the marker error, its buffer unmodified.
C8_MarkerNotFound ==
    (/\ ds.pc = "d2_done"
     /\ ValidSize(ds.in)
     /\ \A i \in 4..(Len(ds.in) - 13) : ds.in[i + 1] # 255)
    => (ds.err = "marker" /\ ds.ret = "false" /\ ds.buf = ds.in)

\* a marker error on a buffer that does hold a 0xff byte, below index 4
C8_Witness ==
    /\ ds.pc = "d2_done"
    /\ ds.err = "marker"
    /\ ValidSize(ds.in)
    /\ \E i \in 1..3 : ds.in[i + 1] = 255

\* The checksum pair as the claim states it: the XOR of ~w and 0 minus the
\* sum of the big-endian words w of buf[0..n)
RECURSIVE C9_XorOfNot(_, _)
C9_XorOfNot(buf, n) ==
    IF n = 0 THEN Zero32
    ELSE Xor32(C9_XorOfNot(buf, n - 4), Not32(getbe32(buf, n - 4)))
RECURSIVE C9_SumOf(_, _)
C9_SumOf(buf, n) ==
    IF n = 0 THEN Zero32 ELSE Add32(C9_SumOf(buf, n - 4), getbe32(buf, n - 4))

\* C9: when the byte loop is over, with end the marker index, n = end & ~3 and
\* buf[end] set to 0, descrambler2 returns true only if (c0, c1) equals the
\* pair stored at size-8 and size-12; if it differs descrambler2 returns
\* false and the buffer is left as it was, no bit swapped.
C9_ChecksumGate ==
    [][(ds.pc = "d2_xor" /\ ds'.pc = "d2_done") =>
         LET buf == [ds.buf EXCEPT ![ds.end + 1] = 0]
             n == 4 * (ds.end \div 4)
             match == /\ C9_XorOfNot(buf, n) = getbe32(ds.in, ds.size - 8)
                      /\ Sub32(Zero32, C9_SumOf(buf, n)) = getbe32(ds.in, ds.size - 12)
         IN  /\ ds'.ret = "true" => match
             /\ ~match => (ds'.ret = "false" /\ ds'.err = "checksum"
                           /\ ~ds'.swapped /\ ds'.buf = buf)]_vars

\* descrambler2 returned true after the last bit-swap pass
C9_Witness == ds.pc = "d2_done" /\ ds.ret = "true" /\ ds.swapped /\ ds.end >= 8

\* C10, as stated: when descrambler1 or descrambler2 returns, the caller's
\* seed_data holds the values it held before the call.
C10_SeedsUnchanged ==
    ds.pc \in {"d1_done", "d2_done"} => ds.seeds = ds.seeds0

\* The switch test in the claim's words, on plain integers: the counter
\* after this byte is at least length[seed_index] + fudge
C13_SwitchDue ==
    LET length == ds.seeds.length[ds.seed_index + 1]
    IN  length[1] = 0 /\ ds.processed + 1 >= length[2] + ds.fudge

\* C13: the byte loop starts with seed_index 0, fudge 0 and counter 0; at
\* every byte seed_index is in {0,1,2}; at the byte where the counter reaches
\* length[seed_index] + fudge the PRNG state is stored into
\* table[seed_index], seed_index moves to the next of 0,1,2,0,..., fudge
\* goes up by 1 if that was the wrap from 2 to 0 and stays otherwise, the
\* state is reloaded from table[next index] and the counter is reset to 0; at
\* every other byte seed_index, fudge and the table stay as they are.
C13_SeedRotation ==
    [][/\ (ds.pc = "d2" /\ ds'.pc = "d2_xor") =>
            ds'.seed_index = 0 /\ ds'.fudge = 0 /\ ds'.processed = 0 /\ ds'.i = 0
       /\ (ds.pc = "d2_xor" /\ ds'.pc = "d2_xor") =>
            LET s == NextSeed(ds.seed0, ds.seed1)
                idx == ds.seed_index
                next == (idx + 1) % 3
            IN  /\ idx \in 0..2 /\ ds'.seed_index \in 0..2
                /\ ds'.i = ds.i + 1
                /\ ds'.fudge >= ds.fudge
                /\ IF C13_SwitchDue
                   THEN /\ ds'.seed_index = next
                        /\ ds'.fudge = IF idx = 2 THEN ds.fudge + 1 ELSE ds.fudge
                        /\ ds'.seeds.table = [ds.seeds.table EXCEPT ![idx + 1] = s]
                        /\ ds'.seed1 = ds'.seeds.table[next + 1]
                        /\ ds'.processed = 0
                   ELSE /\ ds'.seed_index = idx
                        /\ ds'.fudge = ds.fudge
                        /\ ds'.seeds.table = ds.seeds.table
                        /\ ds'.seed1 = s
                        /\ ds'.processed = ds.processed + 1
      ]_vars

\* in the byte loop after the wrap from 2 to 0 and one more switch
C13_Witness ==
    ds.pc = "d2_xor" /\ ds.fudge >= 1 /\ ds.seed_index = 1 /\ ds.processed >= 1

\* C14, as stated: a descrambler1 or descrambler2 call reads and writes only
\* bytes at indices in [0, size) of its buffer, and every bit its bit-swap
\* pass swaps lies inside the chunk of chunk_size bytes the pass was given.
C14_StaysInside ==
    ds.pc \in {"d1_done", "d2_done"} => ~ds.past /\ ~ds.past_chunk

-----------------------------------------------------------------------------
(* gust_enc's main on one ".e" file                                        *)

\* main from the fopen of the source file on, with the seeds read from the
\* JSON file.  output is the .xml file: whether fopen created it and the
\* bytes fwrite stored; r is the value main returns.
MCall(file, seeds) ==
    [pc |-> "start", file |-> file, seeds |-> seeds,
     type_ok |-> FALSE, dec_size |-> Zero32, d1_ok |-> FALSE, d2_ok |-> FALSE,
     output |-> [exists |-> FALSE, bytes |-> <<>>], r |-> -1]

\* Lines 441-464: read the file, check the type, allocate dec, call
\* descrambler1; alloc tells whether both malloc succeed
MnOpen ==
    /\ mn.pc = "start"
    /\ \E alloc \in BOOLEAN :
         IF ~alloc \/ getbe32(mn.file, 0) # U32(0, 2)
         THEN /\ mn' = [mn EXCEPT !.pc = "out"]
              /\ UNCHANGED ds
         ELSE /\ mn' = [mn EXCEPT !.pc = "d1", !.type_ok = TRUE,
                                  !.dec_size = getbe32(mn.file, 4)]
              /\ ds' = DCall("d1", SubSeq(mn.file, 17, Len(mn.file)), mn.seeds)
    /\ UNCHANGED <<sw, ug, pk>>

\* if (!descrambler1(...)) goto out; then the call of descrambler2
MnD1Done ==
    /\ mn.pc = "d1" /\ ds.pc = "d1_done"
    /\ IF ds.ret = "false"
       THEN mn' = [mn EXCEPT !.pc = "out"] /\ UNCHANGED ds
       ELSE /\ mn' = [mn EXCEPT !.pc = "d2", !.d1_ok = TRUE]
            /\ ds' = DCall("d2", ds.buf, ds.seeds)
    /\ UNCHANGED <<sw, ug, pk>>

\* if (!descrambler2(...)) goto out; then the call of unglaze
MnD2Done ==
    /\ mn.pc = "d2" /\ ds.pc = "d2_done"
    /\ IF ds.ret = "false"
       THEN mn' = [mn EXCEPT !.pc = "out"] /\ UNCHANGED ug
       ELSE /\ mn' = [mn EXCEPT !.pc = "unglaze", !.d2_ok = TRUE]
            /\ \E order \in CopyOrders : ug' = GCall(ds.buf, mn.dec_size, order)
    /\ UNCHANGED <<sw, ds, pk>>

\* Lines 467-483: the test of unglaze's result against dec_size, fopen and
\* fwrite of dec_size bytes of dec; created and wrote tell whether they succeed
MnUnglazeDone ==
    /\ mn.pc = "unglaze" /\ ug.pc = "done"
    /\ \E created \in BOOLEAN, wrote \in BOOLEAN :
         LET dec == SubSeq(ug.out, 1, Min(Len(ug.out), Pos(mn.dec_size)))
         IN  mn' = IF ug.ret # mn.dec_size \/ ~created
                   THEN [mn EXCEPT !.pc = "out"]
                   ELSE IF ~wrote /\ mn.dec_size # Zero32
                   THEN [mn EXCEPT !.pc = "out", !.output = [exists |-> TRUE, bytes |-> <<>>]]
                   ELSE [mn EXCEPT !.pc = "out", !.r = 0,
                                   !.output = [exists |-> TRUE, bytes |-> dec]]
    /\ UNCHANGED <<sw, ds, ug, pk>>

\* out: free, fclose, return r
MnOut ==
    /\ mn.pc = "out"
    /\ mn' = [mn EXCEPT !.pc = "exit"]
    /\ UNCHANGED <<sw, ds, ug, pk>>

-----------------------------------------------------------------------------
(* The ".e" files under study                                              *)

\* The inverse of WordStep: the word a scrambler stores for w
InvWordStep(st, i, seed0, fence) ==
    LET s == NextSeed(seed0, st.s)
        x == s[1] % 32768
        w1 == (getbe16(st.m, i) + x) % 65536
        w == IF FenceHit(x, fence) THEN Xor16(w1, x) ELSE w1
    IN  [s |-> s, m |-> [st.m EXCEPT ![i + 1] = w \div 256, ![i + 2] = w % 256]]

RECURSIVE InvWordRange(_, _, _, _, _)
InvWordRange(st, lo, hi, seed0, fence) ==
    IF hi <= lo THEN st
    ELSE IF hi = lo + 1 THEN InvWordStep(st, 2 * lo, seed0, fence)
    ELSE LET mid == (lo + hi) \div 2
             half == InvWordRange(st, lo, mid, seed0, fence)
         IN  IF half.s[1] < 0 THEN half
             ELSE InvWordRange(half, mid, hi, seed0, fence)

\* A buffer descrambler1 turns into buf (of 0x100 bytes: one whole slice)
EncodeD1(buf, seeds) ==
    LET words == InvWordRange([s |-> seeds.main[2], m |-> buf], 0, Len(buf) \div 2,
                              SEED_CONSTANT, seeds.fence).m
    IN  descramble_chunk(words, 0, Len(buf), SEED_CONSTANT, seeds.main[1], 256, 0).mem

MainSeeds == CHOOSE seeds \in SeedSets : seeds.length = <<U(3), U(1), U(2)>>

\* The 0x100-byte scrambled stream of a ".e" file whose descrambled bytes
\* start with the glaze stream: 0x80 bytes of body, the marker, and the
\* trailer at the end; hit overwrites a byte as HitAt says
Scrambled(stream, hit) ==
    LET plain == [i \in 1..128 |-> IF i <= Len(stream) THEN stream[i] ELSE 0]
        body == descramble_chunk(plain, 0, 128, SEED_CONSTANT, MainSeeds.main[3], 128, 0).mem
        d2 == EncodeD2(body, 256 - 144, Zero32, MainSeeds)
    IN  EncodeD1(Corrupt(d2, HitAt(body, 256 - 144, hit), 85), MainSeeds)

\* The streams: three bytes decoded from the dictionary; a stream declaring
\* no output whose bitstream is too small; a stream declaring no output
ShortProgram == [codes |-> <<1, 1, 1>>, dict |-> <<65, 66, 67>>, lentab |-> <<>>, n |-> 3]

ScrambledStreams ==
    { Scrambled(Stream(ShortProgram, out_len, 0, tweak), hit) :
        out_len \in {0, 3}, tweak \in {"none", "bitstream_4"}, hit \in {"none", "checksum0"} }

\* The type tag, the decompressed size, 8 reserved bytes, the stream
MainFiles ==
    { be32(Small32(type)) \o be32(Small32(dec_size)) \o <<0, 0, 0, 0, 0, 0, 0, 0>> \o stream :
        type \in {1, 2}, dec_size \in {0, 3}, stream \in ScrambledStreams }

InitMain ==
    /\ sw = Idle /\ ds = Idle /\ ug = Idle /\ pk = Idle
    /\ \E file \in MainFiles : mn = MCall(file, MainSeeds)

NextMain ==
    \/ MnOpen \/ D1Call \/ MnD1Done \/ D2Begin \/ D2XorByte \/ D2Finish \/ MnD2Done
    \/ GParse \/ GStep \/ GReturn \/ MnUnglazeDone \/ MnOut

SpecMain == InitMain /\ [][NextMain]_vars

\* Every stage has run and reported success
StagesOk ==
    /\ mn.type_ok /\ mn.d1_ok /\ mn.d2_ok
    /\ ug # Idle /\ ug.pc = "done" /\ ug.err = "none"

\* C5: the output is all-or-nothing: the file is written only after the type
\* tag was 2 and D1, D2 and unglaze each succeeded; if any stage reports an
\* error no output is written and the program reports failure.
C5_AllOrNothing ==
    mn.pc = "exit" =>
        /\ mn.output.exists => (StagesOk /\ mn.r = 0)
        /\ ~StagesOk => (~mn.output.exists /\ mn.r # 0)

-----------------------------------------------------------------------------
(* All the calls together                                                  *)

Init == InitSwap \/ InitD \/ InitGlaze \/ InitTable \/ InitPak \/ InitDecode \/ InitMain

Next == NextSwap \/ NextD \/ NextGlaze \/ NextTable \/ NextPak \/ NextDecode \/ NextMain

Spec == Init /\ [][Next]_vars

====
